---------------------------- MODULE Spec2Model ----------------------------
(***************************************************************************)
(* Model of the RustDesk build-and-publish pipeline                        *)
(* (src/rustdesk_auto_build.py).                                           *)
(*                                                                         *)
(* Text is modelled as a sequence of tokens.  A token is either one        *)
(* character class or one fixed literal of the source:                     *)
(*   "SA"  pub const RENDEZVOUS_SERVERS: &[&str] = &[   (server anchor)    *)
(*   "KA"  pub const RS_PUB_KEY: &str = "               (key anchor)       *)
(*   "ST"  ];        "KT"  ";        "DQ"  "        "NL"  line break       *)
(*   "X"   an ordinary letter        "BS"  a backslash                     *)
(*   "G0"  the template escape \g<0>  (only in configured values)          *)
(***************************************************************************)
EXTENDS Integers, Sequences, FiniteSets, TLC

VARIABLES
    cln,        \* the cleanup utility: configuration, position, lists, calls
    patch,      \* the file under the patch function (SpecPatch)
    req,        \* one hosting API request and its result (SpecRequest)
    ver,        \* one Cargo.toml under get_rustdesk_version (SpecVersion)
    rem,        \* one working tree under the remote step of push (SpecRemote)
    now,        \* the wall clock, in half seconds
    cfg,        \* the configuration file: [file, json]
    pc,         \* where the process is: "start", a stage of run(), or an end
    run,        \* number of the current invocation of the program
    stages,     \* stages of run() entered in this invocation, in order
    calls,      \* side-effecting calls issued in this invocation, in order
    raised,     \* an exception has left run() or the constructor (exit 1)
    loc,        \* local values of run(): timestamp, urls, names, log lines
    hbb,        \* the library working tree   <work_dir>/hbb_common
    rd,         \* the application working tree <work_dir>/rustdesk
    remote,     \* names of the repositories that exist on the host
    attempts    \* history: every repository or tag name a run asked for, and
                \* whether the repository was created / the tag was pushed

vars == <<cln, patch, req, ver, rem, now, cfg, pc, run, stages, calls, raised, loc, hbb, rd,
          remote, attempts>>

pipeVars == <<now, cfg, pc, run, stages, calls, raised, loc, hbb, rd, remote,
              attempts>>

-----------------------------------------------------------------------------
(* Bounds and input sets *)

MaxLen == 4

ContentTokens == {"SA", "KA", "ST", "KT", "DQ", "NL", "X"}

Contents == UNION {[1..n -> ContentTokens] : n \in 0..MaxLen}

\* (server_address, public_key) pairs: plain values, values holding a
\* terminator, an anchor declaration or a template escape.
PatchConfigs ==
    { <<a, k>> \in
        {<<"X">>, <<"X", "DQ">>, <<"NL">>, <<"ST">>, <<"KA">>, <<"G0">>,
         <<"BS", "BS">>, <<"BS", "X">>}
        \X {<<"X">>, <<"DQ">>, <<"X", "NL">>, <<"KT">>, <<"ST">>, <<"SA">>} :
        a = <<"X">> \/ k = <<"X">> \/ (a = <<"X", "DQ">> /\ k = <<"DQ">>)
                    \/ (a = <<"NL">> /\ k = <<"X", "NL">>) }

-----------------------------------------------------------------------------
(* re.sub on token sequences *)

SetMin(S) == CHOOSE x \in S : \A y \in S : x <= y

SetMax(S) == CHOOSE x \in S : \A y \in S : x >= y

TemplateError == [ok |-> FALSE, out |-> <<>>]

\* The replacement string is a template: \\ is one backslash, \g<0> is the
\* matched text, a backslash before a letter is "bad escape", a backslash
\* before any other character is kept with that character.
RECURSIVE expand_template(_, _)
expand_template(tmpl, m) ==
    IF tmpl = <<>> THEN [ok |-> TRUE, out |-> <<>>]
    ELSE IF Head(tmpl) = "BS" THEN
        IF Len(tmpl) = 1 \/ tmpl[2] \in {"X", "SA", "KA"} THEN TemplateError
        ELSE LET rest == expand_template(SubSeq(tmpl, 3, Len(tmpl)), m)
                 lit  == IF tmpl[2] = "BS" THEN <<"BS">>
                         ELSE IF tmpl[2] = "G0" THEN <<"BS", "X">>
                         ELSE <<"BS", tmpl[2]>>
             IN  [ok |-> rest.ok, out |-> lit \o rest.out]
    ELSE LET rest == expand_template(Tail(tmpl), m)
             lit  == IF Head(tmpl) = "G0" THEN m ELSE <<Head(tmpl)>>
         IN  [ok |-> rest.ok, out |-> lit \o rest.out]

\* Lazy mutant: the pattern written with a greedy .* instead of .*?
first_term_greedy(s, i, term, dotall) ==
    LET cands == {j \in (i+1)..Len(s) :
                    /\ s[j] = term
                    /\ (dotall \/ \A k \in (i+1)..(j-1) : s[k] # "NL")}
    IN  IF cands = {} THEN 0 ELSE SetMax(cands)

\* End of the match of  <anchor>.*?<term>  that starts at i (0: no match).
\* Without DOTALL the dot does not match a line break.
first_term(s, i, term, dotall) ==
    LET cands == {j \in (i+1)..Len(s) :
                    /\ s[j] = term
                    /\ (dotall \/ \A k \in (i+1)..(j-1) : s[k] # "NL")}
    IN  IF cands = {} THEN 0 ELSE SetMin(cands)

\* re.sub with count=0: every non-overlapping match, leftmost first.
RECURSIVE scan(_, _, _, _, _, _)
scan(s, i, anchor, term, dotall, tmpl) ==
    IF i > Len(s) THEN <<>>
    ELSE LET j == IF s[i] = anchor THEN first_term(s, i, term, dotall) ELSE 0
         IN  IF j > 0
             THEN expand_template(tmpl, SubSeq(s, i, j)).out
                    \o scan(s, j + 1, anchor, term, dotall, tmpl)
             ELSE <<s[i]>> \o scan(s, i + 1, anchor, term, dotall, tmpl)

re_sub(s, anchor, term, dotall, tmpl) ==
    IF ~expand_template(tmpl, <<>>).ok
    THEN [ok |-> FALSE, out |-> s]
    ELSE [ok |-> TRUE, out |-> scan(s, 1, anchor, term, dotall, tmpl)]

\* Mutant: the new declaration is written next to the old one.
new_server_line_keep_old(addr) ==
    <<"SA", "DQ">> \o addr \o <<"DQ", "ST", "G0">>

new_server_line(addr) == <<"SA", "DQ">> \o addr \o <<"DQ", "ST">>

new_key_line(key) == <<"KA">> \o key \o <<"KT">>

\* Mutant: a pattern that matches nothing is an error.
apply_patches_require_anchor(content, addr, key) ==
    IF (\A i \in 1..Len(content) : content[i] # "SA")
          \/ (\A i \in 1..Len(content) : content[i] # "KA")
    THEN [ok |-> FALSE, out |-> content]
    ELSE re_sub(re_sub(content, "SA", "ST", TRUE, new_server_line(addr)).out,
                "KA", "KT", FALSE, new_key_line(key))

\* Mutant: the key substitution is left out.
apply_patches_server_only(content, addr, key) ==
    re_sub(content, "SA", "ST", TRUE, new_server_line(addr))

\* The two substitutions of modify_config_file, in order.
apply_patches(content, addr, key) ==
    LET r1 == re_sub(content, "SA", "ST", TRUE, new_server_line(addr))
    IN  IF ~r1.ok THEN [ok |-> FALSE, out |-> content]
        ELSE LET r2 == re_sub(r1.out, "KA", "KT", FALSE, new_key_line(key))
             IN  IF ~r2.ok THEN [ok |-> FALSE, out |-> content] ELSE r2


-----------------------------------------------------------------------------
(* Hosting API requests: _request *)

\* What the host may answer to one request: a status and a body, or nothing
\* (requests.request itself raises).
Statuses == {200, 201, 204, 301, 401, 403, 404, 422, 500}

Responses ==
    [kind : {"response"}, status : Statuses, text : {"body1", "body2"}]
        \cup {[kind |-> "neterr", status |-> 0, text |-> ""]}

\* One answer of each kind, for the stages of the pipeline.
StageResponses ==
    {r \in Responses : r.kind = "neterr"
                          \/ (r.status \in {201, 204, 422} /\ r.text = "body1")}

upper(method) == IF method = "post" THEN "POST" ELSE "PUT"

NoError == [type |-> "none"]

\* Mutant: a 2xx answer is taken as success whatever the call declared.
request_any_2xx(method, url, expected, resp) ==
    IF resp.kind = "neterr"
    THEN [returned |-> FALSE, logged |-> <<>>,
          error |-> [type |-> "RequestException"]]
    ELSE IF resp.status \notin {200, 201, 204}
    THEN [returned |-> FALSE,
          logged |-> <<[method |-> upper(method), url |-> url,
                        status |-> resp.status, text |-> resp.text]>>,
          error |-> [type |-> "Exception", text |-> resp.text]]
    ELSE [returned |-> TRUE, logged |-> <<>>, error |-> NoError]

\* _request: the response when its status is expected; otherwise an error
\* line in the log and an Exception built from the response text alone.
request(method, url, expected, resp) ==
    IF resp.kind = "neterr"
    THEN [returned |-> FALSE, logged |-> <<>>,
          error |-> [type |-> "RequestException"]]
    ELSE IF resp.status \notin expected
    THEN [returned |-> FALSE,
          logged |-> <<[method |-> upper(method), url |-> url,
                        status |-> resp.status, text |-> resp.text]>>,
          error |-> [type |-> "Exception", text |-> resp.text]]
    ELSE [returned |-> TRUE, logged |-> <<>>, error |-> NoError]

create_expected == {201}

permissions_expected == {200, 204}

\* The three calls the pipeline makes, as they reach _request.
HostingCalls ==
    { [name |-> "create_repository", method |-> "post",
       url |-> "/user/repos", expected |-> create_expected],
      [name |-> "set_actions_permission", method |-> "put",
       url |-> "/repos/U/R/actions/permissions",
       expected |-> permissions_expected],
      [name |-> "set_workflow_permission", method |-> "put",
       url |-> "/repos/U/R/actions/permissions/workflow",
       expected |-> permissions_expected] }

ReqIdle ==
    [call |-> "none", method |-> "post", url |-> "", expected |-> {},
     resp |-> [kind |-> "neterr", status |-> 0, text |-> ""],
     done |-> FALSE, result |-> [returned |-> FALSE, logged |-> <<>>,
                                 error |-> NoError]]

ReqInit ==
    \E c \in HostingCalls, r \in Responses :
        req = [call |-> c.name, method |-> c.method, url |-> c.url,
               expected |-> c.expected, resp |-> r, done |-> FALSE,
               result |-> [returned |-> FALSE, logged |-> <<>>,
                           error |-> NoError]]

ReqSend ==
    /\ ~req.done
    /\ req' = [req EXCEPT
                 !.done = TRUE,
                 !.result = request(req.method, req.url, req.expected, req.resp)]
    /\ UNCHANGED <<cln, patch, ver, rem, pipeVars>>

-----------------------------------------------------------------------------
(* The patch function applied to a file, once and again *)

PatchIdle ==
    [orig |-> <<>>, content |-> <<>>, once |-> <<>>, addr |-> <<"X">>,
     key |-> <<"X">>, n |-> 0, failed |-> FALSE]

PatchInit ==
    \E c \in Contents, cfgp \in PatchConfigs :
        patch = [orig |-> c, content |-> c, once |-> <<>>, addr |-> cfgp[1],
                 key |-> cfgp[2], n |-> 0, failed |-> FALSE]

PatchApply ==
    /\ patch.n < 2
    /\ ~patch.failed
    /\ LET r == apply_patches(patch.content, patch.addr, patch.key)
       IN  patch' = [patch EXCEPT !.content = r.out,
                                  !.failed = ~r.ok,
                                  !.n = IF r.ok THEN @ + 1 ELSE @,
                                  !.once = IF r.ok /\ patch.n = 0 THEN r.out ELSE @]
    /\ UNCHANGED <<cln, req, ver, rem, pipeVars>>



-----------------------------------------------------------------------------
(* Configuration: load_config and the check of __init__ *)

RequiredKeys ==
    {"github_token", "github_username", "server_address", "public_key"}

\* What config.get(key) can give: None (no such key), "" or a value.
JsonNone == [none |-> TRUE, str |-> <<>>]

Str(s) == [none |-> FALSE, str |-> s]

ConfigFiles ==
    {[file |-> "ok", json |-> j] :
        j \in [RequiredKeys -> {JsonNone, Str(<<>>), Str(<<"X">>)}]}
    \cup {[file |-> f, json |-> [k \in RequiredKeys |-> JsonNone]] :
            f \in {"missing", "unparsable"}}

\* load_config: the parsed file, or {} when it is missing or unparsable.
load_config(c) ==
    IF c.file = "ok" THEN c.json ELSE [k \in RequiredKeys |-> JsonNone]

truthy(v) == ~v.none /\ v.str # <<>>

\* Mutant: any(...) written for all(...).
config_complete_any(config) == \E k \in RequiredKeys : truthy(config[k])

\* all([github_token, github_username, server_address, public_key])
config_complete(config) == \A k \in RequiredKeys : truthy(config[k])

-----------------------------------------------------------------------------
(* Names, urls, working trees *)

MaxRuns == 2

MaxTime == 2

\* strftime with a seconds format: the half seconds are dropped.
strftime(t) == t \div 2

NoUrl == <<"", "", -1>>

UpstreamHbb == <<"rustdesk", "hbb_common", -1>>

UpstreamRd == <<"rustdesk", "rustdesk", -1>>

\* clone_url of a repository the host created for the configured user.
clone_url(name) == <<"user", name[1], name[2]>>

Branches == {"master", "main"}

NoHbb ==
    [exists |-> FALSE, origin |-> NoUrl, branch |-> "", commits |-> <<>>,
     hasConfig |-> FALSE, content |-> <<>>, cloned |-> <<>>, head |-> <<>>]

NoRd ==
    [exists |-> FALSE, origin |-> NoUrl, branch |-> "", commits |-> <<>>,
     submodule |-> NoUrl, head |-> NoUrl,
     manifest |-> [exists |-> FALSE, content |-> <<>>], tags |-> {}]

\* src/config.rs as upstream may have it: both declarations (with values
\* other than the configured ones), the key declaration renamed, or the file
\* moved away.
UpstreamConfigRs ==
    { [hasConfig |-> TRUE,
       content |-> <<"X", "SA", "X", "NL", "X", "ST", "NL",
                     "KA", "X", "X", "KT">>],
      [hasConfig |-> TRUE, content |-> <<"SA", "X", "ST", "NL", "X">>],
      [hasConfig |-> FALSE, content |-> <<>>] }

\* A fresh clone of the library: content is src/config.rs in the working
\* tree, head is the same file in the HEAD commit, cloned keeps what upstream
\* had.
FreshHbb ==
    { [exists |-> TRUE, origin |-> UpstreamHbb, branch |-> b, commits |-> <<>>,
       hasConfig |-> f.hasConfig, content |-> f.content,
       cloned |-> f.content, head |-> f.content] :
        b \in Branches, f \in UpstreamConfigRs }

\* Cargo.toml as upstream has it: a package name, then version = "Y".
\* (Every other manifest is an input of SpecVersion.)
UpstreamCargoToml ==
    { [exists |-> TRUE,
       content |-> <<"X", "NL", "VK", "WS", "EQ", "WS", "DQ", "Y", "DQ">>] }

\* A fresh clone of the application: submodule is the url at libs/hbb_common
\* in the working tree, head is the same entry in the HEAD commit.
FreshRd ==
    { [exists |-> TRUE, origin |-> UpstreamRd, branch |-> b, commits |-> <<>>,
       submodule |-> s, head |-> s, manifest |-> m, tags |-> {}] :
        b \in Branches, s \in {NoUrl, UpstreamHbb}, m \in UpstreamCargoToml }

LocInit ==
    [timestamp |-> -1, hbb_common_url |-> NoUrl, rustdesk_url |-> NoUrl,
     rustdesk_repo_name |-> <<"", -1>>, tag_name |-> <<<<>>, "-", -1>>,
     logged |-> {}]

\* A call that goes to a remote of a working tree, and any other call.
RemoteCall(op, arg, to, ok) == [op |-> op, arg |-> arg, ok |-> ok, to |-> to]

Call(op, arg, ok) == RemoteCall(op, arg, NoUrl, ok)

\* The log line of logger.warning in update_rustdesk_submodule.
SubmoduleRemovalWarning ==
    [line |-> "warning", name |-> <<"submodule removal">>]

\* The log lines that name a repository or a tag.
LogLine(kind, name) == [line |-> kind, name |-> name]

-----------------------------------------------------------------------------
(* get_rustdesk_version: re.search(r'version\s*=\s*"([^"]+)"') on Cargo.toml *)

\* Cargo.toml as tokens: "VK" the word version, "WS" a blank, "NL" a line
\* break, "EQ" =, "DQ" ", and the ordinary characters "X" and "Y".
\* A manifest is put together from at most MaxManifest pieces: one token,
\* or a whole declaration.
MaxManifest == 4

ManifestPieces ==
    { <<"VK">>, <<"WS">>, <<"NL">>, <<"EQ">>, <<"DQ">>, <<"X">>,
      <<"VK", "EQ", "DQ", "X", "DQ">>,
      <<"VK", "WS", "EQ", "NL", "DQ", "Y", "X", "DQ">> }

RECURSIVE Flatten(_)
Flatten(pieces) ==
    IF pieces = <<>> THEN <<>> ELSE Head(pieces) \o Flatten(Tail(pieces))

Manifests ==
    { Flatten(ps) : ps \in UNION {[1..n -> ManifestPieces] : n \in 0..MaxManifest} }

DefaultVersion == <<"1.0.0">>

RECURSIVE skip_whitespace(_, _)
\* \s* from position j: the first position that holds no white space.
skip_whitespace(s, j) ==
    IF j <= Len(s) /\ s[j] \in {"WS", "NL"} THEN skip_whitespace(s, j + 1) ELSE j

RECURSIVE skip_unquoted(_, _)
\* [^"]+ from position j, greedy: the first position that holds a quote, or
\* Len(s) + 1.
skip_unquoted(s, j) ==
    IF j <= Len(s) /\ s[j] # "DQ" THEN skip_unquoted(s, j + 1) ELSE j

\* The pattern tried at position i: group 1, or <<>> when it does not match.
match_version(s, i) ==
    IF s[i] # "VK" THEN <<>>
    ELSE LET e == skip_whitespace(s, i + 1)
         IN  IF e > Len(s) \/ s[e] # "EQ" THEN <<>>
             ELSE LET q == skip_whitespace(s, e + 1)
                  IN  IF q > Len(s) \/ s[q] # "DQ" THEN <<>>
                      ELSE LET b == skip_unquoted(s, q + 1)
                           IN  IF b > Len(s) \/ b = q + 1 THEN <<>>
                               ELSE SubSeq(s, q + 1, b - 1)

RECURSIVE search_version(_, _)
\* re.search: the match at the leftmost position that has one.
search_version(s, i) ==
    IF i > Len(s) THEN <<>>
    ELSE IF match_version(s, i) # <<>> THEN match_version(s, i)
    ELSE search_version(s, i + 1)

\* Mutant: no default, a manifest without a declaration is an error.
get_rustdesk_version_no_default(tree) ==
    [ok      |-> tree.manifest.exists
                 /\ search_version(tree.manifest.content, 1) # <<>>,
     version |-> search_version(tree.manifest.content, 1)]

\* get_rustdesk_version: open Cargo.toml (an error when it is not there),
\* the first declared version, or the default.
get_rustdesk_version(tree) ==
    LET m == search_version(tree.manifest.content, 1)
    IN  [ok      |-> tree.manifest.exists,
         version |-> IF tree.manifest.exists /\ m # <<>> THEN m
                     ELSE DefaultVersion]

VerIdle ==
    [exists |-> FALSE, content |-> <<>>, done |-> FALSE,
     result |-> [ok |-> FALSE, version |-> <<>>]]

VerInit ==
    \E e \in BOOLEAN, c \in Manifests :
        /\ ~e => c = <<>>
        /\ ver = [exists |-> e, content |-> c, done |-> FALSE,
                  result |-> [ok |-> FALSE, version |-> <<>>]]

ReadVersion ==
    /\ ~ver.done
    /\ ver' = [ver EXCEPT
                 !.done = TRUE,
                 !.result = get_rustdesk_version(
                                [manifest |-> [exists |-> ver.exists,
                                               content |-> ver.content]])]
    /\ UNCHANGED <<cln, patch, req, rem, pipeVars>>

-----------------------------------------------------------------------------
(* The remote step of push_to_github: origin.set_url or create_remote *)

\* Mutant: create_remote only, which git refuses when origin exists.
set_remote_create_only(tree, url) ==
    IF tree.origin = NoUrl
    THEN [tree |-> [tree EXCEPT !.origin = url], ok |-> TRUE,
          calls |-> <<Call("create_remote", url, TRUE)>>]
    ELSE [tree |-> tree, ok |-> FALSE,
          calls |-> <<Call("create_remote", url, FALSE)>>]

\* try: repo.remote('origin').set_url(url)  except: create_remote('origin', url)
set_remote(tree, url) ==
    [tree  |-> [tree EXCEPT !.origin = url],
     ok    |-> TRUE,
     calls |-> <<Call(IF tree.origin = NoUrl THEN "create_remote" ELSE "set_url",
                      url, TRUE)>>]

\* Clone urls the host can return, and what origin can be before the step.
RemoteUrls ==
    {clone_url(<<k, t>>) : k \in {"hbb_common", "rustdesk"},
                           t \in 0..strftime(MaxTime)}

Origins == {NoUrl, UpstreamHbb, UpstreamRd} \cup RemoteUrls

RemIdle ==
    [orig |-> [origin |-> NoUrl, branch |-> ""],
     tree |-> [origin |-> NoUrl, branch |-> ""],
     first |-> [origin |-> NoUrl, branch |-> ""],
     url |-> NoUrl, n |-> 0, ok |-> TRUE, log |-> <<>>]

RemInit ==
    \E o \in Origins, b \in Branches, u \in RemoteUrls :
        rem = [orig |-> [origin |-> o, branch |-> b],
               tree |-> [origin |-> o, branch |-> b],
               first |-> [origin |-> NoUrl, branch |-> ""],
               url |-> u, n |-> 0, ok |-> TRUE, log |-> <<>>]

AttachRemote ==
    /\ rem.n < 2
    /\ rem.ok
    /\ LET r == set_remote(rem.tree, rem.url)
       IN  rem' = [rem EXCEPT !.tree = r.tree,
                              !.first = IF rem.n = 0 THEN r.tree ELSE @,
                              !.n = @ + 1,
                              !.ok = r.ok,
                              !.log = @ \o r.calls]
    /\ UNCHANGED <<cln, patch, req, ver, pipeVars>>

-----------------------------------------------------------------------------
(* The stages of run() *)

StageOrder ==
    << "setup_workspace", "clone_hbb_common", "clone_rustdesk",
       "modify_config_file", "commit_hbb_common", "create_hbb_common_repo",
       "push_hbb_common", "update_rustdesk_submodule", "create_rustdesk_repo",
       "push_rustdesk", "set_repository_permissions", "create_tag_and_push" >>

StageIndex(stage) == CHOOSE i \in 1..Len(StageOrder) : StageOrder[i] = stage

\* Mutant: the library is pushed before its repository is created.
next_stage_push_first(stage) ==
    IF stage = "commit_hbb_common" THEN "push_hbb_common"
    ELSE IF stage = "push_hbb_common" THEN "create_hbb_common_repo"
    ELSE IF stage = "create_hbb_common_repo" THEN "update_rustdesk_submodule"
    ELSE IF StageIndex(stage) = Len(StageOrder) THEN "Completed"
    ELSE StageOrder[StageIndex(stage) + 1]

\* Mutant: the application is never pushed.
next_stage_skip_push(stage) ==
    IF stage = "create_rustdesk_repo" THEN "set_repository_permissions"
    ELSE IF StageIndex(stage) = Len(StageOrder) THEN "Completed"
    ELSE StageOrder[StageIndex(stage) + 1]

\* Mutant: the submodule is re-pointed before the library is pushed.
next_stage_submodule_first(stage) ==
    IF stage = "create_hbb_common_repo" THEN "update_rustdesk_submodule"
    ELSE IF stage = "update_rustdesk_submodule" THEN "push_hbb_common"
    ELSE IF stage = "push_hbb_common" THEN "create_rustdesk_repo"
    ELSE IF StageIndex(stage) = Len(StageOrder) THEN "Completed"
    ELSE StageOrder[StageIndex(stage) + 1]

\* The statement that follows a stage in the body of run().
next_stage(stage) ==
    IF StageIndex(stage) = Len(StageOrder) THEN "Completed"
    ELSE StageOrder[StageIndex(stage) + 1]

\* Mutant: run() logs the error and goes on.
after_stage_swallow(stage, ok) == next_stage(stage)

\* try ... except Exception: log, raise  around the body of run().
after_stage(stage, ok) == IF ok THEN next_stage(stage) ELSE "Failed"

StageDone(stage, ok, newCalls) ==
    /\ stages' = Append(stages, stage)
    /\ calls' = calls \o newCalls
    /\ pc' = after_stage(stage, ok)
    /\ raised' = (after_stage(stage, ok) = "Failed")

\* _remove_directory: rmtree(ignore_errors=True) only when the path exists.
remove_directory(tree, none, removed) ==
    IF tree.exists /\ removed THEN none ELSE tree

\* Mutant: the clone goes on in a destination that is still there.
clone_from_into_existing(dest, fresh, net) ==
    [ok |-> net, tree |-> IF net /\ ~dest.exists THEN fresh ELSE dest]

\* git.Repo.clone_from(upstream, dest): raises when upstream is unreachable
\* or when dest is still there with something in it; otherwise dest is a
\* fresh clone.
clone_from(dest, fresh, net) ==
    [ok |-> net /\ ~dest.exists,
     tree |-> IF net /\ ~dest.exists THEN fresh ELSE dest]

create_github_repository(name, resp) ==
    LET r == request("post", "/user/repos", create_expected, resp)
    IN  [ok |-> r.returned, clone_url |-> clone_url(name)]

\* Mutant: the refspec names a fixed default branch.
push_to_github_master(tree, url, pushOk) ==
    [tree  |-> [tree EXCEPT !.origin = url],
     ok    |-> pushOk,
     calls |-> set_remote(tree, url).calls \o
               <<RemoteCall("push", <<url, "master", "master", tree.head>>, url,
                            pushOk)>>]

\* Mutant: a failed push is undone, the local commits are reset.
push_to_github_rollback(tree, url, pushOk) ==
    LET c == <<RemoteCall("push", <<url, tree.branch, tree.branch, tree.head>>,
                          url, pushOk)>>
    IN  IF pushOk
        THEN [tree |-> [tree EXCEPT !.origin = url], ok |-> TRUE,
              calls |-> set_remote(tree, url).calls \o c]
        ELSE [tree |-> [tree EXCEPT !.origin = url, !.commits = <<>>],
              ok |-> FALSE,
              calls |-> set_remote(tree, url).calls \o c
                        \o <<Call("reset", <<"--hard">>, TRUE)>>]

\* Mutant: origin is left where the clone put it.
push_to_github_no_retarget(tree, url, pushOk) ==
    [tree  |-> tree,
     ok    |-> pushOk,
     calls |-> <<RemoteCall("push",
                            <<tree.origin, tree.branch, tree.branch, tree.head>>,
                            tree.origin, pushOk)>>]

\* push_to_github: read the active branch, point origin at the url, push
\* branch:branch to origin.
push_to_github(tree, url, pushOk) ==
    LET current_branch == tree.branch
        r == set_remote(tree, url)
    IN  IF ~r.ok THEN r
        ELSE [tree  |-> r.tree,
              ok    |-> pushOk,
              calls |-> r.calls \o
                        << RemoteCall("push",
                                      <<r.tree.origin, current_branch,
                                        current_branch, tree.head>>,
                                      r.tree.origin, pushOk) >>]

\* What the git commands of update_rustdesk_submodule can do: each succeeds
\* or raises.  A command that is not reached has no outcome of its own.
SubmoduleOutcomes ==
    { o \in [rm : BOOLEAN, rmCommit : BOOLEAN, add : BOOLEAN,
             update : BOOLEAN, commit : BOOLEAN] :
        /\ ~o.rm => ~o.rmCommit
        /\ ~o.add => ~o.update
        /\ ~o.update => ~o.commit }

\* Mutant: the removal is committed outside the try block, always.
update_rustdesk_submodule_always_two(tree, url, o) ==
    LET rmOk == o.rm /\ tree.submodule # NoUrl
        t1 == [tree EXCEPT !.submodule = IF rmOk THEN NoUrl ELSE @,
                           !.head = IF rmOk THEN NoUrl ELSE @,
                           !.commits = Append(@, "remove_submodule")]
        c1 == << Call("submodule_rm", <<"libs/hbb_common">>, rmOk),
                 Call("commit_removal", <<"rustdesk">>, TRUE) >>
        t3 == [t1 EXCEPT !.submodule = url]
    IN  IF ~o.add
        THEN [tree |-> t1, ok |-> FALSE, warned |-> ~rmOk,
              calls |-> c1 \o <<Call("submodule_add", url, FALSE)>>]
        ELSE IF ~o.update
        THEN [tree |-> t3, ok |-> FALSE, warned |-> ~rmOk,
              calls |-> c1 \o << Call("submodule_add", url, TRUE),
                                 Call("submodule_update", <<"rustdesk">>, FALSE) >>]
        ELSE [tree |-> IF o.commit
                       THEN [t3 EXCEPT !.head = url,
                                       !.commits = Append(@, "readd_submodule")]
                       ELSE t3,
              ok |-> o.commit, warned |-> ~rmOk,
              calls |-> c1 \o << Call("submodule_add", url, TRUE),
                                 Call("submodule_update", <<"rustdesk">>, TRUE),
                                 Call("commit_addition", <<"rustdesk">>, o.commit) >>]

\* Mutant: no try/except around the removal, its failure ends the method.
update_rustdesk_submodule_rm_fatal(tree, url, o) ==
    IF o.rm /\ o.rmCommit /\ tree.submodule # NoUrl
    THEN update_rustdesk_submodule_always_two(tree, url, o)
    ELSE [tree |-> tree, ok |-> FALSE, warned |-> FALSE,
          calls |-> <<Call("submodule_rm", <<"libs/hbb_common">>, FALSE)>>]

\* update_rustdesk_submodule.  git rm and the commit of the removal share one
\* try block: when either raises, a warning is logged (warned) and the rest
\* goes on.
update_rustdesk_submodule(tree, url, o) ==
    LET rmOk == o.rm /\ tree.submodule # NoUrl
        removed == rmOk /\ o.rmCommit
        t1 == [tree EXCEPT !.submodule = IF rmOk THEN NoUrl ELSE @,
                           !.head = IF removed THEN NoUrl ELSE @,
                           !.commits = IF removed
                                       THEN Append(@, "remove_submodule") ELSE @]
        c1 == <<Call("submodule_rm", <<"libs/hbb_common">>, rmOk)>>
                \o IF rmOk
                   THEN <<Call("commit_removal", <<"rustdesk">>, o.rmCommit)>>
                   ELSE <<>>
        t3 == [t1 EXCEPT !.submodule = url]
    IN  IF ~o.add
        THEN [tree |-> t1, ok |-> FALSE, warned |-> ~removed,
              calls |-> c1 \o <<Call("submodule_add", url, FALSE)>>]
        ELSE IF ~o.update
        THEN [tree |-> t3, ok |-> FALSE, warned |-> ~removed,
              calls |-> c1 \o << Call("submodule_add", url, TRUE),
                                 Call("submodule_update", <<"rustdesk">>, FALSE) >>]
        ELSE [tree |-> IF o.commit
                       THEN [t3 EXCEPT !.head = url,
                                       !.commits = Append(@, "readd_submodule")]
                       ELSE t3,
              ok |-> o.commit, warned |-> ~removed,
              calls |-> c1 \o << Call("submodule_add", url, TRUE),
                                 Call("submodule_update", <<"rustdesk">>, TRUE),
                                 Call("commit_addition", <<"rustdesk">>, o.commit) >>]

\* Mutant: no try/except around the first permission request.
set_repository_permissions_fatal(name, r1, r2) ==
    LET a == request("put", <<"actions/permissions", name>>,
                     permissions_expected, r1)
        b == request("put", <<"actions/permissions/workflow", name>>,
                     permissions_expected, r2)
    IN  IF a.returned
        THEN [ok |-> TRUE,
              calls |-> << Call("put_actions_permissions", name, TRUE),
                           Call("put_workflow_permissions", name, b.returned) >>]
        ELSE [ok |-> FALSE,
              calls |-> <<Call("put_actions_permissions", name, FALSE)>>]

\* set_repository_permissions: two requests, each in its own try block whose
\* handler logs a warning.
set_repository_permissions(name, r1, r2) ==
    LET a == request("put", <<"actions/permissions", name>>,
                     permissions_expected, r1)
        b == request("put", <<"actions/permissions/workflow", name>>,
                     permissions_expected, r2)
    IN  [ok |-> TRUE,
         calls |-> << Call("put_actions_permissions", name, a.returned),
                      Call("put_workflow_permissions", name, b.returned) >>]

\* What the git commands of create_tag_and_push can do: localTag and
\* remoteTag say whether a deletion found a tag to delete.
TagOutcomes ==
    { o \in [localTag : BOOLEAN, remoteTag : BOOLEAN, create : BOOLEAN,
             push : BOOLEAN] : ~o.create => ~o.push }

\* Mutant: the tag is created first and the clean-up runs after it.
create_tag_and_push_create_first(tree, version, t, o) ==
    LET tag == <<version, "-", strftime(t)>>
        withTag == [tree EXCEPT !.tags = @ \cup {tag}]
    IN  IF ~o.create
        THEN [tree |-> tree, tag |-> tag, ok |-> FALSE,
              calls |-> <<Call("create_tag", tag, FALSE)>>]
        ELSE [tree |-> [withTag EXCEPT !.tags = @ \ {tag}], tag |-> tag,
              ok |-> o.push,
              calls |-> << Call("create_tag", tag, TRUE),
                           Call("delete_local_tag", tag, TRUE),
                           RemoteCall("delete_remote_tag", tag, tree.origin,
                                      o.remoteTag),
                           RemoteCall("push_tag", tag, tree.origin, o.push) >>]

\* create_tag_and_push: delete the local tag, delete the remote tag (each in
\* a try block that passes), create the annotated tag, push it.
create_tag_and_push(tree, version, t, o) ==
    LET tag == <<version, "-", strftime(t)>>
        hadLocal == o.localTag \/ tag \in tree.tags
        del == << Call("delete_local_tag", tag, hadLocal),
                  RemoteCall("delete_remote_tag", tag, tree.origin,
                             o.remoteTag) >>
        withTag == [tree EXCEPT !.tags = @ \cup {tag}]
        without == [tree EXCEPT !.tags = @ \ {tag}]
    IN  IF ~o.create
        THEN [tree |-> without, tag |-> tag, ok |-> FALSE,
              calls |-> del \o <<Call("create_tag", tag, FALSE)>>]
        ELSE [tree |-> withTag, tag |-> tag, ok |-> o.push,
              calls |-> del \o << Call("create_tag", tag, TRUE),
                                  RemoteCall("push_tag", tag, tree.origin,
                                             o.push) >>]

-----------------------------------------------------------------------------
(* The cleanup utility (src/github_repo_cleaner.py)                         *)
(*                                                                         *)
(* A line typed at a prompt, a repository name and a delete pattern are    *)
(* sequences of characters.                                                *)

MaxRepos == 2

MaxAsked == 3

\* str.lower() on the letters that occur below.
LowerChar(c) ==
    CASE c = "Y" -> "y" [] c = "E" -> "e" [] c = "S" -> "s"
      [] c = "N" -> "n" [] c = "A" -> "a" [] c = "L" -> "l"
      [] c = "T" -> "t" [] c = "Q" -> "q"
      [] OTHER -> c

lower(s) == [i \in 1..Len(s) |-> LowerChar(s[i])]

\* str.strip(): blanks are dropped at both ends only.
strip(s) ==
    LET keep == { i \in 1..Len(s) : s[i] # " " }
    IN  IF keep = {} THEN <<>> ELSE SubSeq(s, SetMin(keep), SetMax(keep))

\* Lines an operator may type at any prompt.
Answers ==
    { <<"y", "e", "s">>, <<"Y", "E", "S">>, <<" ", "Y", "E", "S", " ">>,
      <<"y">>, <<"n">>, <<"q">>, <<"x">>,
      <<"1">>, <<"2">>, <<"3">>, <<"4">>,
      <<"1", "-", "2">>, <<"2", ",", "1">>, <<"a", "l", "l">> }

\* Values of "dry_run" in the configuration file.
DryValues == {"absent", "true", "false", "null", "0"}

\* --dry-run and --no-dry-run of the command line.
ArgSets == [dry_run : BOOLEAN, no_dry_run : BOOLEAN]

\* Repositories the host may list.
RepoNames == { <<"t", "a">>, <<"T", "b">>, <<"k">> }

Repo(name) == [name |-> name, owner |-> "user"]

HostLists ==
    { s \in UNION {[1..n -> {Repo(m) : m \in RepoNames}] : n \in 0..MaxRepos} :
        \A i \in 1..Len(s) : \A j \in 1..Len(s) : s[i] = s[j] => i = j }

\* safe_repos and delete_patterns of the configuration file.
CleanerConfigs ==
    { [safe_repos |-> {<<"t", "a">>}, delete_patterns |-> << <<"t", "*">> >>],
      [safe_repos |-> {<<"t", "b">>}, delete_patterns |-> << <<"*">> >>],
      [safe_repos |-> {}, delete_patterns |-> << <<"k">>, <<"*", "b">> >>] }

\* self.config.get('dry_run', True) read as a condition.
config_dry_run(value) == value \in {"absent", "true"}

\* __init__: the command line overrides the file.
override_dry_run(value, args) ==
    IF args.dry_run THEN "true"
    ELSE IF args.no_dry_run THEN "false"
    ELSE value

\* match_pattern: '*' becomes '.*', the pattern is anchored at both ends and
\* matched without regard to case.
RECURSIVE match_from(_, _, _, _)
match_from(pattern, i, name, j) ==
    IF i > Len(pattern) THEN j > Len(name)
    ELSE IF pattern[i] = "*"
    THEN \/ match_from(pattern, i + 1, name, j)
         \/ j <= Len(name) /\ match_from(pattern, i, name, j + 1)
    ELSE /\ j <= Len(name)
         /\ LowerChar(pattern[i]) = LowerChar(name[j])
         /\ match_from(pattern, i + 1, name, j + 1)

match_pattern(repo_name, pattern) == match_from(pattern, 1, repo_name, 1)

\* Mutant: the safe list is not consulted.
filter_repositories_ignore_safe(repos, safe_repos, delete_patterns) ==
    LET should_delete(repo) ==
            \E k \in 1..Len(delete_patterns) :
                match_pattern(repo.name, delete_patterns[k])
    IN  SelectSeq(repos, should_delete)

\* filter_repositories: a repository is kept for deletion when its name is
\* not in safe_repos and some pattern matches it.
filter_repositories(repos, safe_repos, delete_patterns) ==
    LET should_delete(repo) ==
            /\ repo.name \notin safe_repos
            /\ \E k \in 1..Len(delete_patterns) :
                  match_pattern(repo.name, delete_patterns[k])
    IN  SelectSeq(repos, should_delete)

\* What the host answers to a DELETE: 204, another status, or no answer
\* (0: the request raised).
DeleteResponses == {204, 404, 0}

\* delete_repository: in dry run a log line and True, otherwise one DELETE.
delete_repository(repo, dry_run, resp) ==
    IF config_dry_run(dry_run)
    THEN [name |-> repo.name, sent |-> FALSE, ok |-> TRUE]
    ELSE [name |-> repo.name, sent |-> TRUE, ok |-> resp = 204]

\* int(): the digits of a part, blanks at the ends ignored; -1 stands for
\* ValueError.
Digits == {"0", "1", "2", "3", "4", "5", "6", "7", "8", "9"}

DigitVal(c) ==
    CASE c = "0" -> 0 [] c = "1" -> 1 [] c = "2" -> 2 [] c = "3" -> 3
      [] c = "4" -> 4 [] c = "5" -> 5 [] c = "6" -> 6 [] c = "7" -> 7
      [] c = "8" -> 8 [] OTHER -> 9

RECURSIVE digits_value(_, _)
digits_value(t, n) ==
    IF n = 0 THEN 0 ELSE 10 * digits_value(t, n - 1) + DigitVal(t[n])

int(s) ==
    LET t == strip(s)
    IN  IF t = <<>> \/ \E i \in 1..Len(t) : t[i] \notin Digits
        THEN -1
        ELSE digits_value(t, Len(t))

\* str.split(','): the parts between the commas.
RECURSIVE split(_, _)
split(s, sep) ==
    LET at == { i \in 1..Len(s) : s[i] = sep }
    IN  IF at = {} THEN <<s>>
        ELSE <<SubSeq(s, 1, SetMin(at) - 1)>>
             \o split(SubSeq(s, SetMin(at) + 1, Len(s)), sep)

RECURSIVE sorted(_)
sorted(S) ==
    IF S = {} THEN <<>> ELSE <<SetMin(S)>> \o sorted(S \ {SetMin(S)})

\* The indices one part of a selection names; {-1} stands for ValueError.
part_indices(p, max_index) ==
    LET part == strip(p)
        dash == { i \in 1..Len(part) : part[i] = "-" }
    IN  IF dash # {}
        THEN LET start == int(SubSeq(part, 1, SetMin(dash) - 1))
                 end == int(SubSeq(part, SetMin(dash) + 1, Len(part)))
             IN  IF start = -1 \/ end = -1 THEN {-1}
                 ELSE IF start < 1 \/ end > max_index \/ start > end THEN {-1}
                 ELSE start..end
        ELSE LET index == int(part)
             IN  IF index < 1 \/ index > max_index THEN {-1} ELSE {index}

\* _parse_indices: the sorted set of the indices of all parts.
parse_indices(selection, max_index) ==
    LET parts == split(selection, ",")
        indices == UNION { part_indices(parts[k], max_index) :
                             k \in 1..Len(parts) }
    IN  IF -1 \in indices THEN [ok |-> FALSE, indices |-> <<>>]
        ELSE [ok |-> TRUE, indices |-> sorted(indices)]

Yes == <<"y", "e", "s">>

\* Mutant: the second confirmation is compared without regard to case.
batch_second_confirmed_any_case(answer) == strip(lower(answer)) = Yes

\* _batch_delete_mode: input(...).lower().strip() != 'yes' cancels.
batch_first_confirmed(answer) == strip(lower(answer)) = Yes

\* _batch_delete_mode: input(...).strip() != 'YES' cancels.
batch_second_confirmed(answer) == strip(answer) = <<"Y", "E", "S">>

ClnIdle ==
    [pc |-> "idle", file_dry_run |-> "absent",
     args |-> [dry_run |-> FALSE, no_dry_run |-> FALSE],
     safe_repos |-> {}, delete_patterns |-> <<>>, dry_run |-> "absent",
     all_repos |-> <<>>, repos |-> <<>>, mode |-> <<>>, selected |-> <<>>,
     i |-> 0, confirms |-> <<>>, asked |-> <<>>, deletes |-> <<>>,
     error |-> FALSE]

\* The utility is started: a configuration file with credentials, a command
\* line.
ClnInit ==
    cln \in { [ClnIdle EXCEPT !.pc = "main", !.file_dry_run = d, !.args = a,
                              !.safe_repos = c.safe_repos,
                              !.delete_patterns = c.delete_patterns] :
                d \in DryValues, a \in ArgSets, c \in CleanerConfigs }

Others == <<patch, req, ver, rem, pipeVars>>

\* main() up to cleaner.run(): both flags exit with code 1, otherwise the
\* constructor loads the file and applies the command line.
CleanerMain ==
    /\ cln.pc = "main"
    /\ cln' = IF cln.args.dry_run /\ cln.args.no_dry_run
              THEN [cln EXCEPT !.pc = "exit1"]
              ELSE [cln EXCEPT !.pc = "run",
                               !.dry_run = override_dry_run(cln.file_dry_run,
                                                            cln.args)]
    /\ UNCHANGED Others

\* run() up to the first prompt: list, filter, display.
CleanerRun ==
    /\ cln.pc = "run"
    /\ \E all_repos \in HostLists :
        \E f \in {filter_repositories(all_repos, cln.safe_repos,
                                      cln.delete_patterns)} :
            cln' = [cln EXCEPT !.all_repos = all_repos,
                               !.repos = f,
                               !.pc = IF all_repos = <<>> \/ f = <<>>
                                      THEN "ended" ELSE "select_mode"]
    /\ UNCHANGED Others

\* _select_delete_mode: one line at the prompt.
SelectMode ==
    /\ cln.pc = "select_mode"
    /\ \E a \in Answers :
        LET choice == strip(a)
        IN  cln' = IF choice = <<"4">> THEN [cln EXCEPT !.pc = "ended"]
                   ELSE IF choice = <<"1">>
                   THEN [cln EXCEPT !.pc = "batch_confirm1", !.mode = choice]
                   ELSE IF choice = <<"2">>
                   THEN [cln EXCEPT !.pc = "index_select", !.mode = choice]
                   ELSE IF choice = <<"3">>
                   THEN [cln EXCEPT !.pc = "individual", !.mode = choice,
                                    !.i = 1]
                   ELSE cln
    /\ UNCHANGED Others

BatchConfirm1 ==
    /\ cln.pc = "batch_confirm1"
    /\ \E a \in Answers :
        cln' = [cln EXCEPT !.confirms = Append(@, a),
                           !.pc = IF batch_first_confirmed(a)
                                  THEN "batch_confirm2" ELSE "ended"]
    /\ UNCHANGED Others

BatchConfirm2 ==
    /\ cln.pc = "batch_confirm2"
    /\ \E a \in Answers :
        cln' = IF batch_second_confirmed(a)
               THEN [cln EXCEPT !.confirms = Append(@, a), !.pc = "deleting",
                                !.selected = cln.repos, !.i = 1]
               ELSE [cln EXCEPT !.confirms = Append(@, a), !.pc = "ended"]
    /\ UNCHANGED Others

\* _index_select_mode: one line at the selection prompt.
IndexSelect ==
    /\ cln.pc = "index_select"
    /\ \E a \in Answers :
        \E r \in {parse_indices(strip(a), Len(cln.repos))} :
            cln' = IF lower(strip(a)) = <<"a", "l", "l">>
                   THEN [cln EXCEPT !.pc = "index_confirm",
                                    !.selected = cln.repos]
                   ELSE IF r.ok /\ r.indices # <<>>
                   THEN [cln EXCEPT !.pc = "index_confirm",
                                    !.selected =
                                        [k \in 1..Len(r.indices) |->
                                            cln.repos[r.indices[k]]]]
                   ELSE cln
    /\ UNCHANGED Others

IndexConfirm ==
    /\ cln.pc = "index_confirm"
    /\ \E a \in Answers :
        cln' = IF strip(lower(a)) = Yes
               THEN [cln EXCEPT !.pc = "deleting", !.i = 1]
               ELSE [cln EXCEPT !.pc = "ended"]
    /\ UNCHANGED Others

\* One turn of the delete loop of the batch and index modes.
DeleteNext ==
    /\ cln.pc = "deleting"
    /\ \E resp \in DeleteResponses :
        cln' = [cln EXCEPT
                  !.deletes = Append(@, delete_repository(cln.selected[cln.i],
                                                          cln.dry_run, resp)),
                  !.i = @ + 1,
                  !.pc = IF cln.i = Len(cln.selected) THEN "ended"
                         ELSE "deleting"]
    /\ UNCHANGED Others

\* _individual_confirm_mode: one line at the prompt for repository i.  The
\* continue statements of the n branch and of the last branch belong to the
\* inner while loop: the same repository is asked about again.
IndividualAnswer ==
    /\ cln.pc = "individual"
    /\ \E a \in Answers :
        LET choice == strip(lower(a))
        IN  IF choice \in {<<"y">>, Yes}
            THEN /\ Len(cln.asked) < MaxAsked
                 /\ \E resp \in DeleteResponses :
                      cln' = [cln EXCEPT
                                !.asked = Append(@, [i |-> cln.i, yes |-> TRUE]),
                                !.deletes =
                                    Append(@, delete_repository(cln.repos[cln.i],
                                                                cln.dry_run,
                                                                resp)),
                                !.i = @ + 1,
                                !.pc = IF cln.i = Len(cln.repos) THEN "ended"
                                       ELSE "individual"]
            ELSE IF choice \in {<<"n">>, <<"n", "o">>}
            THEN /\ Len(cln.asked) < MaxAsked
                 /\ cln' = [cln EXCEPT
                              !.asked = Append(@, [i |-> cln.i, yes |-> FALSE])]
            ELSE IF choice \in {<<"q">>, <<"q", "u", "i", "t">>}
            THEN cln' = [cln EXCEPT !.pc = "ended"]
            ELSE cln' = cln
    /\ UNCHANGED Others

Prompts ==
    {"select_mode", "batch_confirm1", "batch_confirm2", "index_select",
     "index_confirm", "individual"}

\* input() raises (end of input, Ctrl-C): run() reports it and returns.
Interrupt ==
    /\ cln.pc \in Prompts
    /\ cln' = [cln EXCEPT !.pc = "ended", !.error = TRUE]
    /\ UNCHANGED Others

-----------------------------------------------------------------------------
(* The process: constructor, stages, clock, re-invocation *)

Init ==
    /\ cln = ClnIdle
    /\ patch = PatchIdle
    /\ req = ReqIdle
    /\ ver = VerIdle
    /\ rem = RemIdle
    /\ now = 0
    /\ cfg \in ConfigFiles
    /\ pc = "start"
    /\ run = 1
    /\ stages = <<>>
    /\ calls = <<>>
    /\ raised = FALSE
    /\ loc = LocInit
    /\ hbb = NoHbb
    /\ rd = NoRd
    /\ remote = {}
    /\ attempts = {}

\* RustDeskAutoBuild(): load the file, read the four values, check them.
Construct ==
    /\ pc = "start"
    /\ LET config == load_config(cfg)
       IN  IF config_complete(config)
           THEN pc' = StageOrder[1] /\ raised' = FALSE
           ELSE pc' = "ConstructFailed" /\ raised' = TRUE
    /\ UNCHANGED <<cln, patch, req, ver, rem, now, cfg, run, stages, calls, loc, hbb, rd,
                   remote, attempts>>

\* setup_workspace: makedirs, then git config (whose failure is only logged
\* and leaves the same state).
SetupWorkspace ==
    /\ pc = "setup_workspace"
    /\ \E mk \in BOOLEAN :
        StageDone("setup_workspace", mk,
                  <<Call("makedirs", <<"work_dir">>, mk)>>
                    \o IF mk THEN <<Call("git_config", <<"global">>, TRUE)>>
                       ELSE <<>>)
    /\ UNCHANGED <<cln, patch, req, ver, rem, now, cfg, run, loc, hbb, rd, remote, attempts>>

\* clone_repositories, first half.
CloneHbbCommon ==
    /\ pc = "clone_hbb_common"
    /\ \E removed \in (IF hbb.exists THEN BOOLEAN ELSE {FALSE}),
          net \in BOOLEAN :
       \E fresh \in (IF net THEN FreshHbb ELSE {NoHbb}) :
        LET d == remove_directory(hbb, NoHbb, removed)
            c == clone_from(d, fresh, net)
            ok == c.ok
        IN  /\ hbb' = c.tree
            /\ StageDone("clone_hbb_common", ok,
                         (IF hbb.exists
                          THEN <<Call("rmtree", <<"hbb_common">>, ~d.exists)>>
                          ELSE <<>>)
                         \o <<Call("clone", UpstreamHbb, ok)>>)
    /\ UNCHANGED <<cln, patch, req, ver, rem, now, cfg, run, loc, rd, remote, attempts>>

\* clone_repositories, second half.
CloneRustdesk ==
    /\ pc = "clone_rustdesk"
    /\ \E removed \in (IF rd.exists THEN BOOLEAN ELSE {FALSE}),
          net \in BOOLEAN :
       \E fresh \in (IF net THEN FreshRd ELSE {NoRd}) :
        LET d == remove_directory(rd, NoRd, removed)
            c == clone_from(d, fresh, net)
            ok == c.ok
        IN  /\ rd' = c.tree
            /\ StageDone("clone_rustdesk", ok,
                         (IF rd.exists
                          THEN <<Call("rmtree", <<"rustdesk">>, ~d.exists)>>
                          ELSE <<>>)
                         \o <<Call("clone", UpstreamRd, ok)>>)
    /\ UNCHANGED <<cln, patch, req, ver, rem, now, cfg, run, loc, hbb, remote, attempts>>

ModifyConfigFile ==
    /\ pc = "modify_config_file"
    /\ \E r \in {apply_patches(hbb.content, cfg.json["server_address"].str,
                                cfg.json["public_key"].str)} :
       LET ok == hbb.hasConfig /\ r.ok
       IN  /\ hbb' = IF ok THEN [hbb EXCEPT !.content = r.out] ELSE hbb
           /\ StageDone("modify_config_file", ok,
                        IF ok THEN <<Call("write_file", <<"src/config.rs">>, TRUE)>>
                        ELSE <<>>)
    /\ UNCHANGED <<cln, patch, req, ver, rem, now, cfg, run, loc, rd, remote, attempts>>

CommitHbbCommon ==
    /\ pc = "commit_hbb_common"
    /\ \E ok \in BOOLEAN :
        /\ hbb' = IF ok THEN [hbb EXCEPT !.head = hbb.content,
                                         !.commits = Append(@, "modify_server")]
                  ELSE hbb
        /\ StageDone("commit_hbb_common", ok,
                     <<Call("commit", <<"hbb_common">>, ok)>>)
    /\ UNCHANGED <<cln, patch, req, ver, rem, now, cfg, run, loc, rd, remote, attempts>>

\* timestamp = now().strftime(...); create_github_repository(hbb_common_<ts>)
CreateHbbCommonRepo ==
    /\ pc = "create_hbb_common_repo"
    /\ \E resp \in StageResponses :
        LET ts == strftime(now)
            name == <<"hbb_common", ts>>
            r == create_github_repository(name, resp)
        IN  /\ r.ok => name \notin remote
            /\ remote' = IF r.ok THEN remote \cup {name} ELSE remote
            /\ loc' = [loc EXCEPT !.timestamp = ts,
                                  !.hbb_common_url = IF r.ok THEN r.clone_url ELSE @]
            /\ attempts' = attempts \cup
                             {[run |-> run, kind |-> "repo", name |-> name,
                               made |-> r.ok]}
            /\ StageDone("create_hbb_common_repo", r.ok,
                         <<Call("create_repo", name, r.ok)>>)
    /\ UNCHANGED <<cln, patch, req, ver, rem, now, cfg, run, hbb, rd>>

PushHbbCommon ==
    /\ pc = "push_hbb_common"
    /\ \E pushOk \in BOOLEAN :
        LET r == push_to_github(hbb, loc.hbb_common_url, pushOk)
        IN  /\ hbb' = r.tree
            /\ StageDone("push_hbb_common", r.ok, r.calls)
    /\ UNCHANGED <<cln, patch, req, ver, rem, now, cfg, run, loc, rd, remote, attempts>>

UpdateSubmodule ==
    /\ pc = "update_rustdesk_submodule"
    /\ \E o \in SubmoduleOutcomes :
        LET r == update_rustdesk_submodule(rd, loc.hbb_common_url, o)
        IN  /\ rd' = r.tree
            /\ loc' = [loc EXCEPT
                         !.logged = IF r.warned
                                    THEN @ \cup {SubmoduleRemovalWarning}
                                    ELSE @]
            /\ StageDone("update_rustdesk_submodule", r.ok, r.calls)
    /\ UNCHANGED <<cln, patch, req, ver, rem, now, cfg, run, hbb, remote, attempts>>

\* create_github_repository(rustdesk_<ts>) with the timestamp of stage 5.
CreateRustdeskRepo ==
    /\ pc = "create_rustdesk_repo"
    /\ \E resp \in StageResponses :
        LET name == <<"rustdesk", loc.timestamp>>
            r == create_github_repository(name, resp)
        IN  /\ r.ok => name \notin remote
            /\ remote' = IF r.ok THEN remote \cup {name} ELSE remote
            /\ loc' = [loc EXCEPT !.rustdesk_repo_name = name,
                                  !.rustdesk_url = IF r.ok THEN r.clone_url ELSE @]
            /\ attempts' = attempts \cup
                             {[run |-> run, kind |-> "repo", name |-> name,
                               made |-> r.ok]}
            /\ StageDone("create_rustdesk_repo", r.ok,
                         <<Call("create_repo", name, r.ok)>>)
    /\ UNCHANGED <<cln, patch, req, ver, rem, now, cfg, run, hbb, rd>>

PushRustdesk ==
    /\ pc = "push_rustdesk"
    /\ \E pushOk \in BOOLEAN :
        LET r == push_to_github(rd, loc.rustdesk_url, pushOk)
        IN  /\ rd' = r.tree
            /\ StageDone("push_rustdesk", r.ok, r.calls)
    /\ UNCHANGED <<cln, patch, req, ver, rem, now, cfg, run, loc, hbb, remote, attempts>>

SetPermissions ==
    /\ pc = "set_repository_permissions"
    /\ \E r1 \in StageResponses, r2 \in StageResponses :
        LET r == set_repository_permissions(loc.rustdesk_repo_name, r1, r2)
        IN  StageDone("set_repository_permissions", r.ok, r.calls)
    /\ UNCHANGED <<cln, patch, req, ver, rem, now, cfg, run, loc, hbb, rd, remote, attempts>>

\* get_rustdesk_version, create_tag_and_push, and the closing log lines.
TagAndPush ==
    /\ pc = "create_tag_and_push"
    /\ \E o \in TagOutcomes, v \in {get_rustdesk_version(rd)} :
        LET t == create_tag_and_push(rd, v.version, now, o)
            r == IF v.ok THEN t
                 ELSE [tree |-> rd, tag |-> loc.tag_name, ok |-> FALSE,
                       calls |-> <<>>]
        IN  /\ rd' = r.tree
            /\ loc' = [loc EXCEPT
                         !.tag_name = r.tag,
                         !.logged = IF r.ok
                                    THEN @ \cup
                                         {LogLine("tag", r.tag),
                                          LogLine("repo", <<"hbb_common",
                                                            loc.timestamp>>),
                                          LogLine("repo", loc.rustdesk_repo_name)}
                                    ELSE @]
            /\ attempts' = IF v.ok
                           THEN attempts \cup
                                  {[run |-> run, kind |-> "tag", name |-> r.tag,
                                    made |-> r.ok]}
                           ELSE attempts
            /\ StageDone("create_tag_and_push", r.ok, r.calls)
    /\ UNCHANGED <<cln, patch, req, ver, rem, now, cfg, run, hbb, remote>>

\* Time passes.  The clock is read in two places only, so the time that
\* passes anywhere before a reading is counted right before that reading.
Tick ==
    /\ pc \in {"create_hbb_common_repo", "create_tag_and_push"}
    /\ now < MaxTime
    /\ now' = now + 1
    /\ UNCHANGED <<cln, patch, req, ver, rem, cfg, pc, run, stages, calls, raised, loc, hbb,
                   rd, remote, attempts>>

\* The operator starts the program again: a new process, the same
\* configuration file, workspace and host.
Rerun ==
    /\ pc \in {"Completed", "Failed", "ConstructFailed"}
    /\ run < MaxRuns
    /\ run' = run + 1
    /\ pc' = "start"
    /\ stages' = <<>>
    /\ calls' = <<>>
    /\ raised' = FALSE
    /\ loc' = LocInit
    /\ UNCHANGED <<cln, patch, req, ver, rem, now, cfg, hbb, rd, remote, attempts>>

Next ==
    \/ Construct
    \/ SetupWorkspace
    \/ CloneHbbCommon
    \/ CloneRustdesk
    \/ ModifyConfigFile
    \/ CommitHbbCommon
    \/ CreateHbbCommonRepo
    \/ PushHbbCommon
    \/ UpdateSubmodule
    \/ CreateRustdeskRepo
    \/ PushRustdesk
    \/ SetPermissions
    \/ TagAndPush
    \/ Tick
    \/ Rerun

Spec == Init /\ [][Next]_vars


-----------------------------------------------------------------------------
(* Specifications of the two pure functions *)

\* The pipeline, not started.
PipeIdle ==
    /\ now = 0
    /\ cfg = [file |-> "missing", json |-> [k \in RequiredKeys |-> JsonNone]]
    /\ pc = "start"
    /\ run = 1
    /\ stages = <<>>
    /\ calls = <<>>
    /\ raised = FALSE
    /\ loc = LocInit
    /\ hbb = NoHbb
    /\ rd = NoRd
    /\ remote = {}
    /\ attempts = {}

InitPatch ==
    PatchInit /\ req = ReqIdle /\ ver = VerIdle /\ rem = RemIdle /\ PipeIdle /\ cln = ClnIdle

NextPatch == PatchApply

SpecPatch == InitPatch /\ [][NextPatch]_vars

InitRequest ==
    ReqInit /\ patch = PatchIdle /\ ver = VerIdle /\ rem = RemIdle /\ PipeIdle /\ cln = ClnIdle

NextRequest == ReqSend

SpecRequest == InitRequest /\ [][NextRequest]_vars

InitVersion ==
    VerInit /\ patch = PatchIdle /\ req = ReqIdle /\ rem = RemIdle /\ PipeIdle /\ cln = ClnIdle

NextVersion == ReadVersion

SpecVersion == InitVersion /\ [][NextVersion]_vars

InitRemote ==
    RemInit /\ patch = PatchIdle /\ req = ReqIdle /\ ver = VerIdle /\ PipeIdle /\ cln = ClnIdle

NextRemote == AttachRemote

SpecRemote == InitRemote /\ [][NextRemote]_vars


InitCleaner ==
    /\ ClnInit /\ patch = PatchIdle /\ req = ReqIdle /\ ver = VerIdle
    /\ rem = RemIdle /\ PipeIdle

NextCleaner ==
    \/ CleanerMain
    \/ CleanerRun
    \/ SelectMode
    \/ BatchConfirm1
    \/ BatchConfirm2
    \/ IndexSelect
    \/ IndexConfirm
    \/ DeleteNext
    \/ IndividualAnswer
    \/ Interrupt

SpecCleaner == InitCleaner /\ [][NextCleaner]_vars

-----------------------------------------------------------------------------
(* Claims about the pipeline *)

IsPrefix(s, t) == Len(s) <= Len(t) /\ \A i \in 1..Len(s) : s[i] = t[i]

Entered(stage) == \E i \in 1..Len(stages) : stages[i] = stage

\* The stage was entered in this run and did not end the run in Failed.
Returned(stage) ==
    Entered(stage) /\ ~(pc = "Failed" /\ stages[Len(stages)] = stage)

ConfigUsable ==
    /\ cfg.file = "ok"
    /\ \A k \in RequiredKeys : ~cfg.json[k].none /\ cfg.json[k].str # <<>>

\* C1: with a configuration file that is missing, unparsable, or lacks or
\* leaves empty one of the four values, the constructor fails with an error and
\* no network or version-control call has been issued.
C1_BadConfigFailsBeforeAnyCall ==
    ~ConfigUsable =>
        /\ pc \in {"start", "ConstructFailed"}
        /\ pc = "ConstructFailed" => raised
        /\ calls = <<>> /\ stages = <<>>
        /\ remote = {} /\ ~hbb.exists /\ ~rd.exists

C1_Witness ==
    /\ pc = "ConstructFailed" /\ raised /\ calls = <<>>
    /\ cfg.file = "ok"
    /\ cfg.json["public_key"] = Str(<<>>)
    /\ \A k \in RequiredKeys \ {"public_key"} : cfg.json[k] = Str(<<"X">>)

\* C2: the stages of a run are entered in the order of the stage sequence,
\* each at most once, the next one only when the one before has finished.
C2_StagesInOrderOnce ==
    /\ IsPrefix(stages, StageOrder)
    /\ (\E i \in 1..Len(StageOrder) : pc = StageOrder[i])
           => pc = StageOrder[Len(stages) + 1]
    /\ pc = "Completed" => stages = StageOrder

C2_Witness == pc = "Completed" /\ stages = StageOrder /\ run = 2

\* C3: a failed clone, commit, push or create-repository call is the last
\* call of its run: the run is Failed, the error has been re-raised, and the
\* stages entered are those up to the failing one.
FatalOps ==
    {"clone", "commit", "commit_addition", "push", "push_tag", "create_repo"}

RemovalStepSucceeded ==
    /\ \E i \in 1..Len(calls) : calls[i].op = "submodule_rm" /\ calls[i].ok
    /\ \E i \in 1..Len(calls) : calls[i].op = "commit_removal" /\ calls[i].ok

\* C4 as stated: whenever update_rustdesk_submodule returns, the application
\* tree has exactly two new commits, the removal and then the addition, also
\* when the removal step failed.
C4_AlwaysTwoCommits ==
    Returned("update_rustdesk_submodule")
        => rd.commits = <<"remove_submodule", "readd_submodule">>

\* C4 amended: whenever update_rustdesk_submodule returns, the addition commit
\* is the last commit; the removal commit precedes it exactly when the removal
\* step (git rm and its commit) succeeded, and when that step failed the
\* addition commit is the only one.
C4_TwoCommitsIffRemovalSucceeded ==
    Returned("update_rustdesk_submodule")
        => rd.commits = IF RemovalStepSucceeded
                        THEN <<"remove_submodule", "readd_submodule">>
                        ELSE <<"readd_submodule">>

C4_Witness ==
    /\ Returned("update_rustdesk_submodule")
    /\ \E i \in 1..Len(calls) : calls[i].op = "submodule_rm" /\ ~calls[i].ok
    /\ rd.commits = <<"readd_submodule">>
    /\ rd.submodule = loc.hbb_common_url

\* C5: a name that a run asks the host or git to create is never the name of
\* a repository or tag that an earlier run left behind.
C5_NoNameOfAnEarlierRun ==
    \A a \in attempts, b \in attempts :
        (a.run < b.run /\ a.made) => a.name # b.name

\* C6: the second permission request follows the first whatever the first
\* answered, and the permission stage never ends the run: after it the run
\* stands at the tag stage.
C6_PermissionFailureNotFatal ==
    /\ \A i \in 1..Len(calls) :
          calls[i].op = "put_actions_permissions"
              => (i < Len(calls) /\ calls[i+1].op = "put_workflow_permissions")
    /\ (stages # <<>> /\ stages[Len(stages)] = "set_repository_permissions")
          => pc = "create_tag_and_push"
    /\ (Entered("set_repository_permissions") /\ pc = "Failed")
          => stages[Len(stages)] = "create_tag_and_push"

C6_Witness ==
    /\ pc = "Completed"
    /\ \E i \in 1..Len(calls) :
          /\ calls[i].op = "put_actions_permissions" /\ ~calls[i].ok
          /\ calls[i+1].op = "put_workflow_permissions" /\ ~calls[i+1].ok
    /\ calls[Len(calls)].op = "push_tag" /\ calls[Len(calls)].ok

\* C7: the tag is created only after the deletion of the local tag and then
\* of the remote tag of the same name were attempted, and pushed only after
\* it was created; a deletion that fails raises nothing, the creation follows.
C7_DeleteThenCreateThenPush ==
    \A i \in 1..Len(calls) :
        /\ calls[i].op = "create_tag" =>
              /\ i > 2
              /\ calls[i-2].op = "delete_local_tag" /\ calls[i-2].arg = calls[i].arg
              /\ calls[i-1].op = "delete_remote_tag" /\ calls[i-1].arg = calls[i].arg
        /\ calls[i].op = "push_tag" =>
              /\ i > 1
              /\ calls[i-1].op = "create_tag" /\ calls[i-1].ok
              /\ calls[i-1].arg = calls[i].arg
        /\ calls[i].op = "delete_local_tag" =>
              /\ i + 2 <= Len(calls)
              /\ calls[i+2].op = "create_tag"
              /\ calls[i+2].ok => (i + 3 <= Len(calls) /\ calls[i+3].op = "push_tag")

C7_Witness ==
    /\ pc = "Completed"
    /\ LET n == Len(calls)
       IN  /\ calls[n-3].op = "delete_local_tag" /\ ~calls[n-3].ok
           /\ calls[n-2].op = "delete_remote_tag" /\ ~calls[n-2].ok
           /\ calls[n-1].op = "create_tag" /\ calls[n-1].ok
           /\ calls[n].op = "push_tag" /\ calls[n].ok
           /\ calls[n].arg \in rd.tags

-----------------------------------------------------------------------------
(* Claims about _request *)

StatusExpected == req.resp.kind = "response" /\ req.resp.status \in req.expected

-----------------------------------------------------------------------------
(* Declarations of a text, stated without the scanner *)

\* s[a..b] is one declaration: the anchor, then text free of the terminator
\* (and, for a one-line pattern, of line breaks), then the terminator.
IsDecl(s, a, b, anchor, term, dotall) ==
    /\ a < b
    /\ s[a] = anchor
    /\ s[b] = term
    /\ \A k \in (a+1)..(b-1) : s[k] # term /\ (dotall \/ s[k] # "NL")

\* The declarations that start at or before n, none inside an earlier one.
RECURSIVE DeclsUpTo(_, _, _, _, _)
DeclsUpTo(s, n, anchor, term, dotall) ==
    IF n = 0 THEN {}
    ELSE LET prev == DeclsUpTo(s, n - 1, anchor, term, dotall)
             ends == {b \in (n+1)..Len(s) : IsDecl(s, n, b, anchor, term, dotall)}
         IN  IF ends # {} /\ \A o \in prev : o[2] < n
             THEN prev \cup {<<n, SetMin(ends)>>}
             ELSE prev

Decls(s, anchor, term, dotall) == DeclsUpTo(s, Len(s), anchor, term, dotall)

\* s with the declarations in chosen replaced, all other text kept.
RECURSIVE Replaced(_, _, _, _)
Replaced(s, i, chosen, tmpl) ==
    IF i > Len(s) THEN <<>>
    ELSE IF \E o \in chosen : o[1] = i
    THEN LET o == CHOOSE o \in chosen : o[1] = i
         IN  expand_template(tmpl, SubSeq(s, o[1], o[2])).out
               \o Replaced(s, o[2] + 1, chosen, tmpl)
    ELSE <<s[i]>> \o Replaced(s, i + 1, chosen, tmpl)

ServerDecls(s) == Decls(s, "SA", "ST", TRUE)

KeyDecls(s) == Decls(s, "KA", "KT", FALSE)

AllReplaced(s, addr, key) ==
    LET s1 == Replaced(s, 1, ServerDecls(s), <<"SA", "DQ">> \o addr \o <<"DQ", "ST">>)
    IN  Replaced(s1, 1, KeyDecls(s1), <<"KA">> \o key \o <<"KT">>)

\* Every text in which exactly one declaration per patch (when there is one)
\* is replaced.
OneReplaced(s, addr, key) ==
    LET one(t, ds, tmpl) == IF ds = {} THEN {t}
                            ELSE {Replaced(t, 1, {o}, tmpl) : o \in ds}
    IN  UNION { one(s1, KeyDecls(s1), <<"KA">> \o key \o <<"KT">>) :
                  s1 \in one(s, ServerDecls(s),
                             <<"SA", "DQ">> \o addr \o <<"DQ", "ST">>) }

\* A configured value with no terminator, no anchor declaration and no
\* backslash in it.
Plain(v) == \A i \in 1..Len(v) : v[i] \in {"X", "DQ", "NL"}

-----------------------------------------------------------------------------
(* Claims about the patch function *)

\* C9 as stated: for every content, server address and public key, patching
\* patched content gives the content of the first patching.
C9_IdempotentForEveryValue ==
    patch.n = 2 => patch.content = patch.once

\* C9 amended: the same, for a server address and a public key that hold no
\* "];", no '";', no anchor declaration and no backslash.
C9_IdempotentForPlainValues ==
    (patch.n = 2 /\ Plain(patch.addr) /\ Plain(patch.key))
        => patch.content = patch.once

C9_Witness ==
    /\ patch.n = 2
    /\ Plain(patch.addr) /\ Plain(patch.key)
    /\ ServerDecls(patch.orig) # {} /\ KeyDecls(patch.orig) # {}
    /\ patch.once # patch.orig

\* C10 as stated: after one patching exactly one declaration per patch is
\* replaced and all other text is unchanged.
C10_ExactlyOneReplaced ==
    patch.n = 1 => patch.content \in OneReplaced(patch.orig, patch.addr, patch.key)

\* C10 amended: after one patching every declaration (each from its anchor to
\* the first terminator after it, none overlapping an earlier one) is replaced
\* by the computed replacement and all other text is unchanged.
C10_EveryDeclReplaced ==
    patch.n = 1 => patch.content = AllReplaced(patch.orig, patch.addr, patch.key)

C10_Witness ==
    /\ patch.n = 1
    /\ Cardinality(ServerDecls(patch.orig)) >= 2
    /\ patch.content = new_server_line(patch.addr) \o new_server_line(patch.addr)


-----------------------------------------------------------------------------
(* Claims about the working trees and their remotes *)

\* C11 as stated: when _remove_directory returns, the path does not exist
\* (rmtree is logged only for a path that existed; its ok says the path is
\* gone).
C11_PathAbsentOnReturn ==
    \A i \in 1..Len(calls) : calls[i].op = "rmtree" => calls[i].ok

\* The working tree a push call of this run was issued from.
PushedTree(call) == IF call.arg[1][2] = "hbb_common" THEN hbb ELSE rd

\* C12: every branch push names, on both sides of its refspec, the branch
\* the working tree is on.
C12_PushesActiveBranch ==
    \A i \in 1..Len(calls) :
        calls[i].op = "push" =>
            /\ calls[i].arg[2] = PushedTree(calls[i]).branch
            /\ calls[i].arg[3] = PushedTree(calls[i]).branch

C12_Witness ==
    /\ pc = "Completed"
    /\ hbb.branch = "main" /\ rd.branch = "master"
    /\ \E i, j \in 1..Len(calls) :
          /\ calls[i].op = "push" /\ calls[i].ok /\ calls[i].arg[2] = "main"
          /\ calls[j].op = "push" /\ calls[j].ok /\ calls[j].arg[2] = "master"

\* C14: when the removal step fails a warning is logged and the method goes
\* on: the add follows, then the update, then the commit of the addition.
C14_RemovalFailureGoesOn ==
    \A i \in 1..Len(calls) :
        (calls[i].op \in {"submodule_rm", "commit_removal"} /\ ~calls[i].ok) =>
            /\ SubmoduleRemovalWarning \in loc.logged
            /\ i + 1 <= Len(calls) /\ calls[i+1].op = "submodule_add"
            /\ calls[i+1].ok =>
                  (i + 2 <= Len(calls) /\ calls[i+2].op = "submodule_update")
            /\ (calls[i+1].ok /\ i + 2 <= Len(calls) /\ calls[i+2].ok) =>
                  (i + 3 <= Len(calls) /\ calls[i+3].op = "commit_addition")

C14_Witness ==
    /\ pc = "Completed"
    /\ SubmoduleRemovalWarning \in loc.logged
    /\ \E i \in 1..(Len(calls) - 3) :
          /\ calls[i].op = "submodule_rm" /\ ~calls[i].ok
          /\ calls[i+1].op = "submodule_add" /\ calls[i+1].ok
          /\ calls[i+2].op = "submodule_update" /\ calls[i+2].ok
          /\ calls[i+3].op = "commit_addition" /\ calls[i+3].ok
    /\ rd.head = loc.hbb_common_url

-----------------------------------------------------------------------------
(* Claims about the remote step of push_to_github *)

-----------------------------------------------------------------------------
(* Claims about what a run publishes *)

ConfiguredAddress == cfg.json["server_address"].str

ConfiguredKey == cfg.json["public_key"].str

C16_CompletedMeansAllDone ==
    pc = "Completed" =>
        /\ stages = StageOrder
        /\ ~raised
        /\ {<<"hbb_common", loc.timestamp>>, loc.rustdesk_repo_name} \subseteq remote
        /\ \A u \in {loc.hbb_common_url, loc.rustdesk_url} :
              \E i \in 1..Len(calls) :
                  calls[i].op = "push" /\ calls[i].ok /\ calls[i].to = u
        /\ \E i \in 1..Len(calls) :
              /\ calls[i].op = "push_tag" /\ calls[i].ok
              /\ calls[i].arg = loc.tag_name /\ calls[i].to = loc.rustdesk_url
        /\ loc.tag_name \in rd.tags
        /\ { LogLine("repo", <<"hbb_common", loc.timestamp>>),
             LogLine("repo", loc.rustdesk_repo_name),
             LogLine("tag", loc.tag_name) } \subseteq loc.logged

C16_Witness ==
    /\ pc = "Completed" /\ run = 1
    /\ Cardinality(remote) = 2
    /\ LogLine("tag", loc.tag_name) \in loc.logged
    /\ loc.hbb_common_url # loc.rustdesk_url

\* C18: the step that takes a run to Failed deletes no repository, issues no
\* call after the one that failed, and leaves the commits of this run's
\* working trees in place.
C18_NoCompensationOnFailure ==
    [][ (pc # "Failed" /\ pc' = "Failed") =>
          /\ remote' = remote
          /\ IsPrefix(calls, calls')
          /\ calls' # calls => ~calls'[Len(calls')].ok
          /\ \A i \in 1..(Len(calls') - 1) : i > Len(calls) =>
                (calls'[i].ok \/ calls'[i].op \in
                    {"submodule_rm", "commit_removal", "delete_local_tag",
                     "delete_remote_tag", "rmtree", "put_actions_permissions",
                     "put_workflow_permissions"})
          /\ Entered("clone_hbb_common") =>
                (hbb'.exists /\ IsPrefix(hbb.commits, hbb'.commits)
                    /\ hbb'.head = hbb.head)
          /\ Entered("clone_rustdesk") =>
                (rd'.exists /\ IsPrefix(rd.commits, rd'.commits))
      ]_vars

C18_Witness ==
    /\ pc = "Failed"
    /\ stages[Len(stages)] = "push_rustdesk"
    /\ ~calls[Len(calls)].ok /\ calls[Len(calls)].op = "push"
    /\ Cardinality(remote) = 2
    /\ hbb.commits = <<"modify_server">>
    /\ rd.commits # <<>>
    /\ \E i \in 1..Len(calls) : calls[i].op = "push" /\ calls[i].ok

\* The src/config.rs contents that this run pushed to the library's remote.
LibraryPushed ==
    { calls[i].arg[4] : i \in { j \in 1..Len(calls) :
                                  /\ calls[j].op = "push" /\ calls[j].ok
                                  /\ calls[j].to = loc.hbb_common_url } }

\* Both constants are declared in the text and every declaration of them
\* holds the configured value.
ConstantsConfigured(text) ==
    /\ ServerDecls(text) # {}
    /\ \A o \in ServerDecls(text) :
          SubSeq(text, o[1], o[2])
              = <<"SA", "DQ">> \o ConfiguredAddress \o <<"DQ", "ST">>
    /\ KeyDecls(text) # {}
    /\ \A o \in KeyDecls(text) :
          SubSeq(text, o[1], o[2]) = <<"KA">> \o ConfiguredKey \o <<"KT">>

C20_PushesGoToCreatedRepository ==
    \A i \in 1..Len(calls) :
        calls[i].op \in {"push", "push_tag", "delete_remote_tag"} =>
            /\ calls[i].to \notin {NoUrl, UpstreamHbb, UpstreamRd}
            /\ LET created == { j \in 1..(i-1) :
                                  calls[j].op = "create_repo" /\ calls[j].ok }
               IN  /\ created # {}
                   /\ calls[i].to = clone_url(calls[SetMax(created)].arg)
            /\ calls[i].to = IF calls[i].op = "push" /\ Cardinality(
                                    { j \in 1..(i-1) : calls[j].op = "push" }) = 0
                             THEN loc.hbb_common_url
                             ELSE loc.rustdesk_url

C20_Witness ==
    /\ pc = "Completed"
    /\ hbb.origin = loc.hbb_common_url /\ rd.origin = loc.rustdesk_url
    /\ Cardinality({ i \in 1..Len(calls) :
                       /\ calls[i].op \in {"push", "push_tag", "delete_remote_tag"}
                       /\ calls[i].to \in {loc.hbb_common_url, loc.rustdesk_url} }) = 4

-----------------------------------------------------------------------------
(* Claims about get_rustdesk_version, stated without the search *)

Blank(s, a, b) == \A k \in a..b : s[k] \in {"WS", "NL"}

\* s[a..b] is one version declaration whose value starts after the quote
\* at q: version, blanks, =, blanks, ", a value free of quotes, ".
IsVersionDecl(s, a, q, b) ==
    /\ s[a] = "VK" /\ s[q] = "DQ" /\ s[b] = "DQ"
    /\ q + 1 < b
    /\ \A k \in (q+1)..(b-1) : s[k] # "DQ"
    /\ \E e \in (a+1)..(q-1) :
          s[e] = "EQ" /\ Blank(s, a + 1, e - 1) /\ Blank(s, e + 1, q - 1)

VersionDecls(s) ==
    { d \in (1..Len(s)) \X (1..Len(s)) \X (1..Len(s)) :
        d[1] < d[2] /\ d[2] < d[3] /\ IsVersionDecl(s, d[1], d[2], d[3]) }

FirstVersionDecl(s) ==
    CHOOSE d \in VersionDecls(s) : \A o \in VersionDecls(s) : d[1] <= o[1]

\* C17: for a manifest that can be read, the result is the value of the
\* first version declaration when there is one and "1.0.0" when there is
\* none, and nothing is raised in either case.
C17_DeclaredVersionOrDefault ==
    (ver.done /\ ver.exists) =>
        /\ ver.result.ok
        /\ ver.result.version =
              IF VersionDecls(ver.content) = {} THEN DefaultVersion
              ELSE LET d == FirstVersionDecl(ver.content)
                   IN  SubSeq(ver.content, d[2] + 1, d[3] - 1)

C17_Witness ==
    /\ ver.done /\ ver.exists
    /\ Cardinality(VersionDecls(ver.content)) = 2
    /\ ver.content[1] = "X"
    /\ ver.result.version = <<"Y", "X">>

-----------------------------------------------------------------------------
(* Claims about the order of publishing and re-pointing *)

\* C21: the url given to git submodule add is the clone url that this run's
\* create-repository call for the library returned, a repository no earlier
\* run created, and the library's commit was pushed to that url before the
\* add; the url is never an upstream one.
C21_SubmoduleAddAfterLibraryPush ==
    \A i \in 1..Len(calls) :
        calls[i].op = "submodule_add" =>
            /\ calls[i].arg \notin {NoUrl, UpstreamHbb, UpstreamRd}
            /\ calls[i].arg = loc.hbb_common_url
            /\ \E j \in 1..(i-1) :
                  /\ calls[j].op = "create_repo" /\ calls[j].ok
                  /\ calls[j].arg[1] = "hbb_common"
                  /\ clone_url(calls[j].arg) = calls[i].arg
                  /\ \A a \in attempts :
                        (a.kind = "repo" /\ a.made /\ a.name = calls[j].arg)
                            => a.run = run
                  /\ \E k \in (j+1)..(i-1) :
                        /\ calls[k].op = "push" /\ calls[k].ok
                        /\ calls[k].to = calls[i].arg
                        /\ calls[k].arg[4] = hbb.head

C21_Witness ==
    /\ run = 2
    /\ \E a \in attempts : a.run = 1 /\ a.kind = "repo" /\ a.made
    /\ \E i \in 1..Len(calls) : calls[i].op = "submodule_add" /\ calls[i].ok
    /\ rd.submodule = loc.hbb_common_url
    /\ hbb.origin = loc.hbb_common_url

-----------------------------------------------------------------------------
(* Claims about the working trees across runs *)

CountCalls(ops) ==
    Cardinality({ i \in 1..Len(calls) : calls[i].op \in ops /\ calls[i].ok })

\* C22: once a clone stage of a run has returned, its working tree holds
\* only what this run did to a fresh clone: as many commits as this run
\* committed, upstream's origin or the url this run pushed to, no tag but
\* this run's, the submodule upstream had or this run set; and no clone
\* succeeded right after a reset that left the destination in place.
C22_TreesHoldOnlyThisRunsState ==
    /\ Returned("clone_hbb_common") =>
          /\ hbb.exists
          /\ Len(hbb.commits) = CountCalls({"commit"})
          /\ \/ hbb.origin = UpstreamHbb
             \/ hbb.origin = loc.hbb_common_url /\ Entered("push_hbb_common")
          /\ hbb.cloned \in { f.content : f \in UpstreamConfigRs }
    /\ Returned("clone_rustdesk") =>
          /\ rd.exists
          /\ Len(rd.commits) = CountCalls({"commit_removal", "commit_addition"})
          /\ \/ rd.origin = UpstreamRd
             \/ rd.origin = loc.rustdesk_url /\ Entered("push_rustdesk")
          /\ rd.tags \subseteq {loc.tag_name}
          /\ rd.tags # {} => Entered("create_tag_and_push")
          /\ rd.submodule \in {NoUrl, UpstreamHbb, loc.hbb_common_url}
          /\ rd.submodule \notin {NoUrl, UpstreamHbb}
                => Entered("update_rustdesk_submodule")
    /\ \A i \in 2..Len(calls) :
          (calls[i].op = "clone" /\ calls[i].ok /\ calls[i-1].op = "rmtree")
              => calls[i-1].ok

\* A second run has cloned both trees afresh after a first run had committed
\* to both, retargeted both origins and tagged the application.
C22_Witness ==
    /\ run = 2
    /\ \E a \in attempts : a.run = 1 /\ a.kind = "tag" /\ a.made
    /\ Returned("clone_rustdesk")
    /\ CountCalls({"rmtree"}) = 2
    /\ hbb.commits = <<>> /\ rd.commits = <<>> /\ rd.tags = {}
    /\ hbb.origin = UpstreamHbb /\ rd.origin = UpstreamRd

-----------------------------------------------------------------------------
(* Claims about the cleanup utility *)

\* C23: no DELETE request is sent while the dry_run setting is true or
\* unset (absent from the file, or null): a DELETE is sent only after
\* --no-dry-run or with a set value other than true in the file.
C23_NoDeleteWhileDryRunTrueOrUnset ==
    \A k \in 1..Len(cln.deletes) :
        cln.deletes[k].sent =>
            /\ ~cln.args.dry_run
            /\ \/ cln.args.no_dry_run
               \/ cln.file_dry_run \notin {"absent", "true", "null"}

\* C24: the filtered list holds no repository whose name is in safe_repos,
\* only repositories the host listed, and every call of delete_repository,
\* in every mode, is for a repository of the filtered list.
C24_SafeReposNeverDeleted ==
    /\ \A k \in 1..Len(cln.repos) :
          /\ cln.repos[k].name \notin cln.safe_repos
          /\ \E j \in 1..Len(cln.all_repos) : cln.all_repos[j] = cln.repos[k]
    /\ \A k \in 1..Len(cln.selected) :
          \E j \in 1..Len(cln.repos) : cln.repos[j] = cln.selected[k]
    /\ \A k \in 1..Len(cln.deletes) :
          /\ cln.deletes[k].name \notin cln.safe_repos
          /\ \E j \in 1..Len(cln.repos) :
                cln.repos[j].name = cln.deletes[k].name

\* The host listed a safe repository that a delete pattern matches, and a
\* DELETE for another repository was sent and answered 204.
C24_Witness ==
    /\ cln.pc = "ended"
    /\ \E j \in 1..Len(cln.all_repos) :
          /\ cln.all_repos[j].name \in cln.safe_repos
          /\ \E k \in 1..Len(cln.delete_patterns) :
                match_pattern(cln.all_repos[j].name, cln.delete_patterns[k])
    /\ \E k \in 1..Len(cln.deletes) : cln.deletes[k].sent /\ cln.deletes[k].ok

\* C25: in individual confirm mode the k-th y or n answer is about the k-th
\* repository: an answer of n leaves its repository alone and the next
\* answer is asked about the next one.
C25_NoMovesOnToNextRepository ==
    cln.mode = <<"3">> =>
        \A k \in 1..Len(cln.asked) : cln.asked[k].i = k

\* s is t with blanks before and after it.
PaddedWith(s, t) ==
    \E a \in 0..Len(s) :
        /\ a + Len(t) <= Len(s)
        /\ SubSeq(s, a + 1, a + Len(t)) = t
        /\ \A i \in 1..Len(s) : (i <= a \/ i > a + Len(t)) => s[i] = " "

BatchDeleting == cln.mode = <<"1">> /\ (cln.pc = "deleting" \/ cln.deletes # <<>>)

\* C26 as stated: batch mode calls delete_repository only after a first
\* answer that is yes in any case and a second answer that is YES, nothing
\* else typed.
C26_BothConfirmationsExact ==
    BatchDeleting =>
        /\ Len(cln.confirms) = 2
        /\ lower(cln.confirms[1]) = Yes
        /\ cln.confirms[2] = <<"Y", "E", "S">>

\* C26: batch mode calls delete_repository only after a first answer that is
\* yes in any case and a second answer that is YES, each with any blanks
\* around it; the second is asked for only after the first was given, and
\* after any other answer the mode has ended with no call.
C26_BothConfirmationsTrimmed ==
    /\ BatchDeleting =>
          /\ Len(cln.confirms) = 2
          /\ PaddedWith(lower(cln.confirms[1]), Yes)
          /\ PaddedWith(cln.confirms[2], <<"Y", "E", "S">>)
    /\ cln.pc = "batch_confirm2" =>
          Len(cln.confirms) = 1 /\ PaddedWith(lower(cln.confirms[1]), Yes)
    /\ \/ Len(cln.confirms) = 0
       \/ /\ PaddedWith(lower(cln.confirms[1]), Yes)
          /\ Len(cln.confirms) = 2 =>
                PaddedWith(cln.confirms[2], <<"Y", "E", "S">>)
       \/ cln.pc = "ended" /\ cln.deletes = <<>>

\* Both confirmations were typed with blanks around them and every filtered
\* repository got its DELETE.
C26_Witness ==
    /\ cln.mode = <<"1">> /\ cln.pc = "ended"
    /\ Len(cln.confirms) = 2
    /\ cln.confirms[1] = <<" ", "Y", "E", "S", " ">>
    /\ cln.confirms[2] = <<" ", "Y", "E", "S", " ">>
    /\ Len(cln.deletes) = Len(cln.repos)
    /\ \A k \in 1..Len(cln.deletes) : cln.deletes[k].sent

=============================================================================
